---- MODULE Spec2Model ----
(***************************************************************************)
(* Model of the dip-buy strategy check of awakzdev/finance:                *)
(* src/__tests__/test_strategy.py, function test_buy_signal.               *)
(*                                                                         *)
(* test_buy_signal is a single-threaded fold over the records returned by  *)
(* read_transaction_log.  The list of records is an input: its elements    *)
(* are drawn when the for loop reaches them, which covers every finite     *)
(* list of at most MaxRecords records.  One loop iteration is modelled as  *)
(* four steps (fetch, anchor and trigger, buy evaluation, sell evaluation) *)
(* so that the state between the buy and the sell evaluation of a record   *)
(* is visible.                                                             *)
(*                                                                         *)
(* Prices are integers and 0.95 is the exact rational 19/20; a trigger     *)
(* price is the pair num/den with den = 20^(N+1).  Python computes the     *)
(* same quantity in binary floating point.                                 *)
(*                                                                         *)
(* Two more programs are modelled, each under its own specification:       *)
(* read_transaction_log of the same file (SpecRead) and main of            *)
(* src/main.py (SpecMain).  While one program runs, the variables of the   *)
(* other two keep their initial values.                                    *)
(***************************************************************************)
EXTENDS Integers, Sequences, FiniteSets, TLC

\* ------------------------------------------------------------------ bounds

\* Longest transaction list explored.
MaxRecords == 4

\* Largest initial cash balance explored, in multiples of the investment.
MaxLots == 2

\* ------------------------------------------------------- program constants

INITIAL_CASH == 5000

INVESTMENT_PER_BUY == 5000

\* 0.95 = DropNum / DropDen
DropNum == 19

DropDen == 20

WINDOW_DAYS == 730

\* ------------------------------------------------------------------ inputs

\* Configurations: the shipped pair (INITIAL_CASH, INVESTMENT_PER_BUY) and
\* its neighbours: no cash, several lots, and a balance that is not a
\* multiple of the investment.
InvestmentChoices == {INVESTMENT_PER_BUY}

CashChoices ==
    {k * INITIAL_CASH : k \in 0..MaxLots} \cup {INITIAL_CASH + INITIAL_CASH \div 2}

\* Python's None / a present value.
None == <<>>

Some(v) == <<v>>

Val(o) == o[1]

\* Dates as day numbers; date differences are differences of day numbers.
Dates == {0, WINDOW_DAYS, WINDOW_DAYS + 1}

LowPrices == {80, 94, 95, 96}

PeakPrices == {100, 120}

\* The text of the 'action' column; None when the row has no such value.
ActionTexts == {"buy", "Buy", "sell", "hold"}

ActionFields == {None} \cup {Some(s) : s \in ActionTexts}

\* A row as read_transaction_log returns it.
Transactions ==
    [date : Dates, low : LowPrices, peak : PeakPrices, action : ActionFields]

\* Mutant of Lower: the label is compared as written.
Lower_NotLowered(s) == s

\* str.lower() on the texts above.
Lower(s) ==
    CASE s = "Buy" -> "buy"
      [] OTHER -> s

\* ------------------------------------------------------------------- state

VARIABLES
    initial_cash,           \* INITIAL_CASH of the run
    investment_per_buy,     \* INVESTMENT_PER_BUY of the run
    pc,                     \* position in test_buy_signal
    n_read,                 \* records of the list consumed so far
    start_date,
    date_obj,               \* tx['date_obj'] of the record last taken
    tx,                     \* the loop variable
    action,                 \* tx['action'].lower()
    failed_buys,
    passed_buys,
    active_investments,
    original_highest_peak,
    stocks_sold,
    last_purchase_price,
    cash_balance,
    trigger_price,
    outcome,                \* how the run ended
    \* read_transaction_log
    r_pc,                   \* position in read_transaction_log
    fieldnames,             \* csv_reader.fieldnames, normalised
    n_rows,                 \* rows of the file consumed so far
    row,                    \* the loop variable, as csv.DictReader yields it
    transactions,           \* the list being built
    \* main
    m_pc,                   \* position in main
    sym,                    \* index of the loop variable symbol in symbols
    data,                   \* the DataFrame of yf.download
    sha,
    commit_message,
    content_base64,
    csv,                    \* the local CSV files, by name
    remote,                 \* which files exist in the repository
    uploads,                \* the PUT requests sent, in order
    calls                   \* per CSV file, the calls main has completed on it

\* The variables of read_transaction_log.
readVars == <<r_pc, fieldnames, n_rows, row, transactions>>

\* The variables of main.
mainVars == <<m_pc, sym, data, sha, commit_message, content_base64, csv,
              remote, uploads, calls>>

vars == <<initial_cash, investment_per_buy, pc, n_read, start_date, date_obj,
          tx, action, failed_buys, passed_buys, active_investments,
          original_highest_peak, stocks_sold, last_purchase_price,
          cash_balance, trigger_price, outcome, readVars, mainVars>>

\* What no step of test_buy_signal's loop writes: its configuration, and the
\* variables of the other programs.
config == <<initial_cash, investment_per_buy, readVars, mainVars>>

\* The simulation state threaded through the loop.
sim == <<failed_buys, passed_buys, active_investments, original_highest_peak,
         stocks_sold, last_purchase_price, cash_balance>>

\* ----------------------------------------------------------------- helpers

RECURSIVE Pow(_, _)
Pow(b, e) == IF e = 0 THEN 1 ELSE b * Pow(b, e - 1)

\* Mutant of TriggerPrice: the drop factor is 1, the trigger is the anchor.
TriggerPrice_NoDecay(last, n) ==
    [num |-> last * Pow(DropDen, n + 1), den |-> Pow(DropDen, n + 1)]

\* last_purchase_price * 0.95 ** (len(active_investments) + 1)
TriggerPrice(last, n) ==
    [num |-> last * Pow(DropNum, n + 1), den |-> Pow(DropDen, n + 1)]

\* Mutant of AtOrBelowTrigger: strict comparison.
AtOrBelowTrigger_Strict(low, trig) == low * trig.den < trig.num

\* low_price <= trigger_price
AtOrBelowTrigger(low, trig) == low * trig.den <= trig.num

\* Mutant of EnoughCash: any positive balance is enough.
EnoughCash_AnyCash(cash, invest) == cash > 0

\* Mutant of EnoughCash: the balance is not looked at.
EnoughCash_Unchecked(cash, invest) == TRUE

\* cash_balance >= INVESTMENT_PER_BUY
EnoughCash(cash, invest) == cash >= invest

\* action == 'buy'
IsBuy(a) == a = "buy"

\* action == 'sell'
IsSell(a) == a = "sell"

\* (date_obj - start_date).days > 730
OutsideWindow(d, start) == d - start > WINDOW_DAYS

\* Mutant of Investment: the position is booked at the price paid.
Investment_PricePaid(t, invest) == [price |-> t.low, date |-> t.date, amount |-> t.low]

\* The dict appended to active_investments.
Investment(t, invest) == [price |-> t.low, date |-> t.date, amount |-> invest]

\* Mutant of Popped: pop(0), the oldest element leaves.
Popped_Oldest(s) == SubSeq(s, 2, Len(s))

\* list.pop() : the list without its last element
Popped(s) == SubSeq(s, 1, Len(s) - 1)

\* Mutant of AllSold: every sell ends the campaign.
AllSold_AnySell(stack) == TRUE

\* len(active_investments) == 0
AllSold(stack) == Len(stack) = 0

\* ------------------------------------------------------------------- Init

\* read_transaction_log has not been entered.
ReadIdle ==
    /\ r_pc = "idle"
    /\ fieldnames = {}
    /\ n_rows = 0
    /\ row = None
    /\ transactions = <<>>

\* symbols
Symbols == <<"QLD", "^NDX">>

\* re.sub(r'[^\w]', '', symbol) on the symbols above.
Sanitize(symbol) ==
    CASE symbol = "^NDX" -> "NDX"
      [] OTHER -> symbol

\* f"{sanitized_symbol.lower()}_stock_data.csv"
CsvFilename(symbol) ==
    CASE Sanitize(symbol) = "QLD" -> "qld_stock_data.csv"
      [] Sanitize(symbol) = "NDX" -> "ndx_stock_data.csv"

Files == {CsvFilename(Symbols[i]) : i \in 1..Len(Symbols)}

\* main has not been entered.
MainIdle ==
    /\ m_pc = "idle"
    /\ sym = 0
    /\ data = None
    /\ sha = None
    /\ commit_message = None
    /\ content_base64 = None
    /\ csv = [f \in Files |-> "absent"]
    /\ remote = [f \in Files |-> FALSE]
    /\ uploads = <<>>
    /\ calls = [f \in Files |-> <<>>]

Init ==
    /\ initial_cash \in CashChoices
    /\ investment_per_buy \in InvestmentChoices
    /\ pc = "start"
    /\ n_read = 0
    /\ start_date = None
    /\ date_obj = None
    /\ tx = None
    /\ action = None
    /\ failed_buys = 0
    /\ passed_buys = 0
    /\ active_investments = <<>>
    /\ original_highest_peak = None
    /\ stocks_sold = TRUE
    /\ last_purchase_price = None
    /\ cash_balance = initial_cash
    /\ trigger_price = None
    /\ outcome = "running"
    /\ ReadIdle
    /\ MainIdle

\* ---------------------------------------------------------------- actions

\* transactions[0] on an empty list raises IndexError.
StartEmpty ==
    /\ pc = "start"
    /\ pc' = "done"
    /\ outcome' = "crashed"
    /\ UNCHANGED <<config, date_obj, n_read, start_date, tx, action, sim, trigger_price>>

\* start_date = transactions[0]['date_obj']
Start ==
    /\ pc = "start"
    /\ \E d \in Dates : start_date' = Some(d)
    /\ pc' = "loop"
    /\ UNCHANGED <<config, date_obj, n_read, tx, action, sim, trigger_price, outcome>>

\* The next element of the list; the first one carries start_date.
NextOf(t) ==
    /\ pc = "loop"
    /\ n_read < MaxRecords
    /\ n_read = 0 => t.date = Val(start_date)
    /\ n_read' = n_read + 1
    /\ date_obj' = Some(t.date)

\* A record past the 730-day window: continue.
SkipRecord ==
    \E t \in Transactions :
        /\ NextOf(t)
        /\ OutsideWindow(t.date, Val(start_date))
        /\ pc' = "loop"
        /\ UNCHANGED <<config, start_date, tx, action, sim, trigger_price, outcome>>

\* A record inside the window whose action is a string.
FetchRecord ==
    \E t \in Transactions :
        /\ NextOf(t)
        /\ ~OutsideWindow(t.date, Val(start_date))
        /\ t.action # None
        /\ tx' = Some(t)
        /\ action' = Some(Lower(Val(t.action)))
        /\ pc' = "anchor"
        /\ UNCHANGED <<config, start_date, sim, trigger_price, outcome>>

\* A record inside the window without an action: None.lower() raises.
FetchCrash ==
    \E t \in Transactions :
        /\ NextOf(t)
        /\ ~OutsideWindow(t.date, Val(start_date))
        /\ t.action = None
        /\ pc' = "done"
        /\ outcome' = "crashed"
        /\ UNCHANGED <<config, start_date, tx, action, sim, trigger_price>>

\* Mutant of AnchorAndTrigger: the trigger of a record labelled sell is
\* computed from the number of positions its sell will leave.
AnchorAndTrigger_CountAfterPop ==
    /\ pc = "anchor"
    /\ IF stocks_sold
       THEN /\ original_highest_peak' = Some(Val(tx).peak)
            /\ last_purchase_price' = Some(Val(tx).peak)
            /\ stocks_sold' = FALSE
       ELSE UNCHANGED <<original_highest_peak, last_purchase_price, stocks_sold>>
    /\ trigger_price' =
           Some(TriggerPrice(Val(last_purchase_price'),
                             IF IsSell(Val(action)) /\ Len(active_investments) > 0
                             THEN Len(active_investments) - 1
                             ELSE Len(active_investments)))
    /\ pc' = "buy"
    /\ UNCHANGED <<config, date_obj, n_read, start_date, tx, action, failed_buys,
                   passed_buys, active_investments, cash_balance, outcome>>

\* Mutant of AnchorAndTrigger: the anchor moves whenever no position is open.
AnchorAndTrigger_WhenEmpty ==
    /\ pc = "anchor"
    /\ IF stocks_sold \/ Len(active_investments) = 0
       THEN /\ original_highest_peak' = Some(Val(tx).peak)
            /\ last_purchase_price' = Some(Val(tx).peak)
            /\ stocks_sold' = FALSE
       ELSE UNCHANGED <<original_highest_peak, last_purchase_price, stocks_sold>>
    /\ trigger_price' =
           Some(TriggerPrice(Val(last_purchase_price'), Len(active_investments)))
    /\ pc' = "buy"
    /\ UNCHANGED <<config, date_obj, n_read, start_date, tx, action, failed_buys,
                   passed_buys, active_investments, cash_balance, outcome>>

\* if stocks_sold: re-anchor; then compute trigger_price.
AnchorAndTrigger ==
    /\ pc = "anchor"
    /\ IF stocks_sold
       THEN /\ original_highest_peak' = Some(Val(tx).peak)
            /\ last_purchase_price' = Some(Val(tx).peak)
            /\ stocks_sold' = FALSE
       ELSE UNCHANGED <<original_highest_peak, last_purchase_price, stocks_sold>>
    /\ trigger_price' =
           Some(TriggerPrice(Val(last_purchase_price'), Len(active_investments)))
    /\ pc' = "buy"
    /\ UNCHANGED <<config, date_obj, n_read, start_date, tx, action, failed_buys,
                   passed_buys, active_investments, cash_balance, outcome>>

\* if low_price <= trigger_price: buy, failed buy or insufficient cash.
BuyEvaluation ==
    /\ pc = "buy"
    /\ IF AtOrBelowTrigger(Val(tx).low, Val(trigger_price))
          /\ EnoughCash(cash_balance, investment_per_buy)
       THEN IF IsBuy(Val(action))
            THEN /\ passed_buys' = passed_buys + 1
                 /\ active_investments' =
                        Append(active_investments,
                               Investment(Val(tx), investment_per_buy))
                 /\ last_purchase_price' = Some(Val(tx).low)
                 /\ cash_balance' = cash_balance - investment_per_buy
                 /\ UNCHANGED failed_buys
            ELSE /\ failed_buys' = failed_buys + 1
                 /\ UNCHANGED <<passed_buys, active_investments,
                                last_purchase_price, cash_balance>>
       ELSE UNCHANGED <<failed_buys, passed_buys, active_investments,
                        last_purchase_price, cash_balance>>
    /\ pc' = "sell"
    /\ UNCHANGED <<config, date_obj, n_read, start_date, tx, action, original_highest_peak,
                   stocks_sold, trigger_price, outcome>>

\* Mutant of SellEvaluation: the test of the empty stack is dedented out of
\* the sell branch, so a sell on an empty stack sets stocks_sold.
SellEvaluation_FlagDedented ==
    /\ pc = "sell"
    /\ IF IsSell(Val(action)) /\ Len(active_investments) > 0
       THEN /\ active_investments' = SubSeq(active_investments, 1, Len(active_investments) - 1)
            /\ cash_balance' =
                   cash_balance + active_investments[Len(active_investments)].amount
       ELSE UNCHANGED <<active_investments, cash_balance>>
    /\ stocks_sold' = IF IsSell(Val(action)) /\ Len(active_investments') = 0
                      THEN TRUE ELSE stocks_sold
    /\ pc' = "loop"
    /\ tx' = None
    /\ UNCHANGED <<config, date_obj, n_read, start_date, action, failed_buys,
                   passed_buys, original_highest_peak, last_purchase_price,
                   trigger_price, outcome>>

\* if action == 'sell' and len(active_investments) > 0: pop and credit.
\* The iteration ends here: tx is dead until the loop head assigns it
\* again, and is cleared.
SellEvaluation ==
    /\ pc = "sell"
    /\ IF IsSell(Val(action)) /\ Len(active_investments) > 0
       THEN /\ active_investments' = Popped(active_investments)
            /\ cash_balance' =
                   cash_balance + active_investments[Len(active_investments)].amount
            /\ stocks_sold' = IF AllSold(active_investments')
                              THEN TRUE ELSE stocks_sold
       ELSE UNCHANGED <<active_investments, cash_balance, stocks_sold>>
    /\ pc' = "loop"
    /\ tx' = None
    /\ UNCHANGED <<config, date_obj, n_read, start_date, action, failed_buys,
                   passed_buys, original_highest_peak, last_purchase_price,
                   trigger_price, outcome>>

\* Mutant of Finish: the tally is printed but not asserted.
Finish_NoAssert ==
    /\ pc = "loop"
    /\ n_read >= 1
    /\ pc' = "done"
    /\ outcome' = "passed"
    /\ UNCHANGED <<config, date_obj, n_read, start_date, tx, action, sim, trigger_price>>

\* The list is exhausted: assert failed_buys == 0.
Finish ==
    /\ pc = "loop"
    /\ n_read >= 1
    /\ pc' = "done"
    /\ outcome' = IF failed_buys = 0 THEN "passed" ELSE "assert_failed"
    /\ UNCHANGED <<config, date_obj, n_read, start_date, tx, action, sim, trigger_price>>

Next ==
    \/ StartEmpty
    \/ Start
    \/ SkipRecord
    \/ FetchRecord
    \/ FetchCrash
    \/ AnchorAndTrigger
    \/ BuyEvaluation
    \/ SellEvaluation
    \/ Finish

Spec == Init /\ [][Next]_vars

\* ==================================================== read_transaction_log

\* Longest file explored, in data rows.
MaxRows == 3

\* Header rows of the file, as written in it.
RawHeaders ==
    { <<"Date", " Low Price", "Highest Peak ", "Action">>,
      <<"date", "highest peak", "action">> }

\* field.strip().lower() on the names above.
StripLower(name) ==
    CASE name = "Date" -> "date"
      [] name = " Low Price" -> "low price"
      [] name = "Highest Peak " -> "highest peak"
      [] name = "Action" -> "action"
      [] OTHER -> name

\* csv_reader.fieldnames after line 22.
Fieldnames(header) == {StripLower(header[i]) : i \in 1..Len(header)}

DateTexts == {"01/01/2020", "02/01/2020", "2020-01-03"}

LowTexts == {"94", "-5", "abc", ""}

PeakTexts == {"100", "abc", ""}

\* The values csv.DictReader gives a key: the cell's text, or None when the
\* line is shorter than the header.
Cells(texts) == {None} \cup {Some(t) : t \in texts}

\* The key is not in the row: the header has no such column.
Absent == <<"no", "key">>

CellsOf(names, key, texts) ==
    IF key \in names THEN Cells(texts) ELSE {Absent}

\* The dicts csv.DictReader can yield under the given fieldnames, one field
\* per key the code reads; overlong says that the line holds more cells
\* than the header, which DictReader stores under the key None.
RawRows(names) ==
    [date : CellsOf(names, "date", DateTexts),
     low : CellsOf(names, "low price", LowTexts),
     peak : CellsOf(names, "highest peak", PeakTexts),
     action : CellsOf(names, "action", {"buy"}),
     overlong : BOOLEAN]

\* datetime.strptime(text, "%d/%m/%Y") as a day number; None for ValueError.
ParseDay(text) ==
    CASE text = "01/01/2020" -> Some(0)
      [] text = "02/01/2020" -> Some(1)
      [] OTHER -> None

\* float(text); None for ValueError.
ParseFloat(text) ==
    CASE text = "94" -> Some(94)
      [] text = "100" -> Some(100)
      [] text = "-5" -> Some(0 - 5)
      [] OTHER -> None

\* not row[key] : the value is None or the empty string
Falsy(cell) == cell = None \/ cell = Some("")

\* The test of line 29.
MissingOrEmpty(r) ==
    \/ r.date = Absent
    \/ r.low = Absent
    \/ Falsy(r.low)
    \/ r.peak = Absent
    \/ Falsy(r.peak)

\* What one iteration of the loop of lines 24-42 does with a row:
\* "raise" (an exception leaves the function), "skip" (continue) or
\* "append".
RowOutcome(r) ==
    IF r.overlong THEN "raise"                        \* line 26, None.lower()
    ELSE IF MissingOrEmpty(r) THEN "skip"             \* line 30
    ELSE IF ParseFloat(Val(r.low)) = None THEN "raise"    \* line 33
    ELSE IF ParseFloat(Val(r.peak)) = None THEN "raise"   \* line 34
    ELSE IF r.date = None THEN "raise"                \* line 38, TypeError
    ELSE IF ParseDay(Val(r.date)) = None THEN "skip"  \* line 40
    ELSE "append"

\* The dict appended at line 42.
Parsed(r) ==
    [date |-> Val(ParseDay(Val(r.date))),
     low |-> Val(ParseFloat(Val(r.low))),
     peak |-> Val(ParseFloat(Val(r.peak))),
     action |-> r.action]

\* The variables of test_buy_signal's loop, which read_transaction_log
\* does not touch.
testVars == <<initial_cash, investment_per_buy, pc, n_read, start_date,
              date_obj, tx, action, failed_buys, passed_buys,
              active_investments, original_highest_peak, stocks_sold,
              last_purchase_price, cash_balance, trigger_price, outcome>>

\* test_buy_signal at its first line, with the shipped constants.
TestIdle ==
    /\ initial_cash = INITIAL_CASH
    /\ investment_per_buy = INVESTMENT_PER_BUY
    /\ pc = "start"
    /\ n_read = 0
    /\ start_date = None
    /\ date_obj = None
    /\ tx = None
    /\ action = None
    /\ failed_buys = 0
    /\ passed_buys = 0
    /\ active_investments = <<>>
    /\ original_highest_peak = None
    /\ stocks_sold = TRUE
    /\ last_purchase_price = None
    /\ cash_balance = INITIAL_CASH
    /\ trigger_price = None
    /\ outcome = "running"

\* The file is open and its header read and normalised (lines 17-22).
ReadInit ==
    /\ TestIdle
    /\ MainIdle
    /\ r_pc = "rows"
    /\ fieldnames \in {Fieldnames(h) : h \in RawHeaders}
    /\ n_rows = 0
    /\ row = None
    /\ transactions = <<>>

\* The next row of the file.
NextRow(r) ==
    /\ r_pc = "rows"
    /\ n_rows < MaxRows
    /\ n_rows' = n_rows + 1
    /\ row' = Some(r)
    /\ UNCHANGED <<fieldnames, testVars, mainVars>>

\* An exception leaves the loop and the function.
ReadRaise ==
    \E r \in RawRows(fieldnames) :
        /\ NextRow(r)
        /\ RowOutcome(r) = "raise"
        /\ r_pc' = "raised"
        /\ UNCHANGED transactions

\* continue
ReadSkip ==
    \E r \in RawRows(fieldnames) :
        /\ NextRow(r)
        /\ RowOutcome(r) = "skip"
        /\ UNCHANGED <<r_pc, transactions>>

\* transactions.append(row)
ReadAppend ==
    \E r \in RawRows(fieldnames) :
        /\ NextRow(r)
        /\ RowOutcome(r) = "append"
        /\ transactions' = Append(transactions, Parsed(r))
        /\ UNCHANGED r_pc

\* The file is exhausted: return transactions.
ReadReturn ==
    /\ r_pc = "rows"
    /\ r_pc' = "returned"
    /\ UNCHANGED <<fieldnames, n_rows, row, transactions, testVars, mainVars>>

ReadNext ==
    \/ ReadRaise
    \/ ReadSkip
    \/ ReadAppend
    \/ ReadReturn

SpecRead == ReadInit /\ [][ReadNext]_vars

\* ==================================================================== main

\* What yf.download returns: no rows, rows without one of the expected
\* columns, or rows with all of them.
DataFrames == {"empty", "missing", "full"}

\* A local CSV file: "absent"; "good", the expected header and data rows;
\* "stray", the same with further header rows ('Ticker', 'Date') among the
\* data rows; "badheader", data rows under another header; "empty", no
\* bytes.
Written == {"good", "stray", "badheader"}

\* clean_csv on a file it can read and rewrite: the rows after the header
\* that start with 'Ticker' or 'Date' are removed.
Cleaned(file) == IF file = "stray" THEN "good" ELSE file

\* Mutant of Validate: every file is accepted.
Validate_AcceptsAll(file) == TRUE

\* validate_csv on a file pandas can read: the columns are the expected
\* ones and there is at least one row.  A stray header row is a row.
Validate(file) == file \in {"good", "stray"}

\* base64.b64encode(content).decode('utf-8')
Base64(file) == <<"base64", file>>

\* The SHA of a file that exists in the repository.
ShaOf(path) == <<"sha", path>>

\* The status of the GET of get_file_sha: 200 for a file that exists, 404
\* for one that does not, 403 and 500 for a request that is refused or
\* fails.
LookupStatuses(exists) == (IF exists THEN {200} ELSE {404}) \cup {403, 500}

\* get_file_sha: the 'sha' of the response for 200, None for 404, and None
\* for every other status.
GetFileShaResult(status, path) ==
    IF status = 200 THEN Some(ShaOf(path))
    ELSE IF status = 404 THEN None
    ELSE None

\* Lines 229-234.
CommitMessage(s, symbol) ==
    IF s = None THEN <<"Create", Sanitize(symbol), "stock data">>
    ELSE <<"Update", Sanitize(symbol), "stock data">>

\* The payload of upload_file_to_github; 'sha' is set only if sha is truthy
\* (None stands for the missing key).
Payload(path, message, content, s) ==
    [path |-> path, message |-> message, content |-> content,
     sha |-> IF s # None THEN s ELSE None]

\* The status of the PUT: 200 for an update with the file's SHA, 201 for
\* the creation of a file that does not exist, 422 for a file that exists
\* and no SHA, 500 for a request that fails.
PutStatuses(exists, s) ==
    (IF exists THEN (IF s # None THEN {200} ELSE {422}) ELSE {201}) \cup {500}

\* csv_filename of the current iteration
File == CsvFilename(Symbols[sym])

\* the call has returned or raised
Called(name) == calls' = [calls EXCEPT ![File] = Append(@, name)]

\* the for loop takes the next symbol
NextSymbol == sym' = sym + 1 /\ m_pc' = "begin"

\* The process starts: local files of an earlier run may exist, and so may
\* the files in the repository.
MainInit ==
    /\ TestIdle
    /\ ReadIdle
    /\ m_pc = "begin"
    /\ sym = 1
    /\ data = None
    /\ sha = None
    /\ commit_message = None
    /\ content_base64 = None
    /\ csv \in [Files -> {"absent", "good"}]
    /\ remote \in [Files -> BOOLEAN]
    /\ uploads = <<>>
    /\ calls = [f \in Files |-> <<>>]

\* for symbol in symbols: lines 165-170
Begin ==
    /\ m_pc = "begin"
    /\ sym <= Len(Symbols)
    /\ m_pc' = "download"
    /\ UNCHANGED <<sym, data, sha, commit_message, content_base64, csv, remote,
                   uploads, calls, testVars, readVars>>

\* symbols is exhausted
Exit ==
    /\ m_pc = "begin"
    /\ sym > Len(Symbols)
    /\ m_pc' = "done"
    /\ UNCHANGED <<sym, data, sha, commit_message, content_base64, csv, remote,
                   uploads, calls, testVars, readVars>>

\* data = yf.download(...)
Download ==
    /\ m_pc = "download"
    /\ \E d \in DataFrames : data' = Some(d)
    /\ Called("yf.download")
    /\ m_pc' = "check"
    /\ UNCHANGED <<sym, sha, commit_message, content_base64, csv, remote,
                   uploads, testVars, readVars>>

\* yf.download raises
DownloadRaises ==
    /\ m_pc = "download"
    /\ m_pc' = "except"
    /\ UNCHANGED <<sym, data, sha, commit_message, content_base64, csv, remote,
                   uploads, calls, testVars, readVars>>

\* if data.empty: continue
SkipEmpty ==
    /\ m_pc = "check"
    /\ data = Some("empty")
    /\ NextSymbol
    /\ UNCHANGED <<data, sha, commit_message, content_base64, csv, remote,
                   uploads, calls, testVars, readVars>>

\* if len(available_columns) != len(expected_columns): continue
SkipMissingColumns ==
    /\ m_pc = "check"
    /\ data = Some("missing")
    /\ NextSymbol
    /\ UNCHANGED <<data, sha, commit_message, content_base64, csv, remote,
                   uploads, calls, testVars, readVars>>

\* data.to_csv(csv_filename, ...)
WriteCsv ==
    /\ m_pc = "check"
    /\ data = Some("full")
    /\ \E w \in Written : csv' = [csv EXCEPT ![File] = w]
    /\ Called("to_csv")
    /\ m_pc' = "clean"
    /\ UNCHANGED <<sym, data, sha, commit_message, content_base64, remote,
                   uploads, testVars, readVars>>

\* to_csv (or the column selection before it) raises; the file may have
\* been truncated.
WriteCsvRaises ==
    /\ m_pc = "check"
    /\ data = Some("full")
    /\ \E w \in {csv[File], "empty"} : csv' = [csv EXCEPT ![File] = w]
    /\ m_pc' = "except"
    /\ UNCHANGED <<sym, data, sha, commit_message, content_base64, remote,
                   uploads, calls, testVars, readVars>>

\* clean_csv(csv_filename)
CleanCsv ==
    /\ m_pc = "clean"
    /\ csv' = [csv EXCEPT ![File] = Cleaned(@)]
    /\ Called("clean_csv")
    /\ m_pc' = "validate"
    /\ UNCHANGED <<sym, data, sha, commit_message, content_base64, remote,
                   uploads, testVars, readVars>>

\* clean_csv meets an exception and swallows it (lines 151-152): the file is
\* as it was, or truncated if the rewrite of line 145 had begun.
CleanCsvFails ==
    /\ m_pc = "clean"
    /\ \E w \in {csv[File]} \cup (IF csv[File] = "stray" THEN {"empty"} ELSE {}) :
           csv' = [csv EXCEPT ![File] = w]
    /\ Called("clean_csv")
    /\ m_pc' = "validate"
    /\ UNCHANGED <<sym, data, sha, commit_message, content_base64, remote,
                   uploads, testVars, readVars>>

\* validate_csv returns True
ValidateAccepts ==
    /\ m_pc = "validate"
    /\ Validate(csv[File])
    /\ Called("validate_csv=True")
    /\ m_pc' = "sha"
    /\ UNCHANGED <<sym, data, sha, commit_message, content_base64, csv, remote,
                   uploads, testVars, readVars>>

\* validate_csv returns False: wrong columns, no row, or an exception while
\* reading, which any file can meet.
ValidateRejects ==
    /\ m_pc = "validate"
    /\ Called("validate_csv=False")
    /\ m_pc' = "remove"
    /\ UNCHANGED <<sym, data, sha, commit_message, content_base64, csv, remote,
                   uploads, testVars, readVars>>

\* os.remove(csv_filename); continue
RemoveInvalid ==
    /\ m_pc = "remove"
    /\ csv' = [csv EXCEPT ![File] = "absent"]
    /\ Called("os.remove")
    /\ NextSymbol
    /\ UNCHANGED <<data, sha, commit_message, content_base64, remote, uploads,
                   testVars, readVars>>

\* os.remove raises, which is logged (lines 222-223); continue
RemoveInvalidFails ==
    /\ m_pc = "remove"
    /\ Called("os.remove raises")
    /\ NextSymbol
    /\ UNCHANGED <<data, sha, commit_message, content_base64, csv, remote,
                   uploads, testVars, readVars>>

\* sha = get_file_sha(...); commit_message
GetFileSha ==
    /\ m_pc = "sha"
    /\ \E status \in LookupStatuses(remote[File]) :
           sha' = GetFileShaResult(status, File)
    /\ commit_message' = Some(CommitMessage(sha', Symbols[sym]))
    /\ Called("get_file_sha")
    /\ m_pc' = "read"
    /\ UNCHANGED <<sym, data, content_base64, csv, remote, uploads, testVars,
                   readVars>>

\* requests.get or response.json() raises
GetFileShaRaises ==
    /\ m_pc = "sha"
    /\ m_pc' = "except"
    /\ UNCHANGED <<sym, data, sha, commit_message, content_base64, csv, remote,
                   uploads, calls, testVars, readVars>>

\* lines 237-239
ReadCsv ==
    /\ m_pc = "read"
    /\ content_base64' = Some(Base64(csv[File]))
    /\ Called("open")
    /\ m_pc' = "put"
    /\ UNCHANGED <<sym, data, sha, commit_message, csv, remote, uploads,
                   testVars, readVars>>

\* open or read raises
ReadCsvRaises ==
    /\ m_pc = "read"
    /\ m_pc' = "except"
    /\ UNCHANGED <<sym, data, sha, commit_message, content_base64, csv, remote,
                   uploads, calls, testVars, readVars>>

\* the request of upload_file_to_github is sent and answered
Put(status) ==
    /\ m_pc = "put"
    /\ status \in PutStatuses(remote[File], sha)
    /\ uploads' = Append(uploads, Payload(File, Val(commit_message),
                                          Val(content_base64), sha))
    /\ remote' = [remote EXCEPT ![File] = @ \/ status = 201]
    /\ Called("requests.put")
    /\ UNCHANGED <<data, sha, commit_message, content_base64, csv, testVars,
                   readVars>>

\* upload_file_to_github, and the response is logged (lines 254-260)
Upload ==
    \E status \in {200, 201, 422, 500} :
        /\ Put(status)
        /\ NextSymbol

\* upload_file_to_github is refused and the body of the response is not
\* JSON: response.json() raises at line 260
UploadRefusedRaises ==
    \E status \in {422, 500} :
        /\ Put(status)
        /\ m_pc' = "except"
        /\ UNCHANGED sym

\* requests.put raises
UploadRaises ==
    /\ m_pc = "put"
    /\ m_pc' = "except"
    /\ UNCHANGED <<sym, data, sha, commit_message, content_base64, csv, remote,
                   uploads, calls, testVars, readVars>>

\* except Exception: the CSV file is removed if it exists, unless os.remove
\* raises
HandleException ==
    /\ m_pc = "except"
    /\ \E w \in {"absent", csv[File]} : csv' = [csv EXCEPT ![File] = w]
    /\ NextSymbol
    /\ UNCHANGED <<data, sha, commit_message, content_base64, remote, uploads,
                   calls, testVars, readVars>>

MainNext ==
    \/ Begin
    \/ Exit
    \/ Download
    \/ DownloadRaises
    \/ SkipEmpty
    \/ SkipMissingColumns
    \/ WriteCsv
    \/ WriteCsvRaises
    \/ CleanCsv
    \/ CleanCsvFails
    \/ ValidateAccepts
    \/ ValidateRejects
    \/ RemoveInvalid
    \/ RemoveInvalidFails
    \/ GetFileSha
    \/ GetFileShaRaises
    \/ ReadCsv
    \/ ReadCsvRaises
    \/ Upload
    \/ UploadRefusedRaises
    \/ UploadRaises
    \/ HandleException

SpecMain == MainInit /\ [][MainNext]_vars

\* ------------------------------------------------------------------ claims

\* Notation of the claims, written out on the state rather than through the
\* operators of the model.
Cur == Val(tx)

OpenCount == Len(active_investments)

\* low_price <= trigger_price for the record being processed
LowAtOrBelowTrigger ==
    Cur.low * Val(trigger_price).den <= Val(trigger_price).num

\* the recorded action is 'buy', whatever its case
LabelledBuy == Val(Cur.action) \in {"buy", "Buy"}

LabelledSell == Val(Cur.action) = "sell"

RECURSIVE GCD(_, _)
GCD(a, b) == IF b = 0 THEN a ELSE GCD(b, a % b)

\* the trigger equals the price p times 0.95^k: the fractions num/den and
\* p * 19^k / 20^k are compared after dividing both denominators by their
\* greatest common divisor, which keeps the products small
TriggerIs(p, k) ==
    LET d == Val(trigger_price).den
        g == GCD(d, Pow(20, k))
    IN  Val(trigger_price).num * (Pow(20, k) \div g) = p * Pow(19, k) * (d \div g)

\* C1: cash_balance is never negative, and a position is pushed only in a
\* step that starts with cash_balance >= investment_per_buy.
C1_CashNeverNegative ==
    /\ cash_balance >= 0
    /\ [][/\ cash_balance' >= 0
          /\ Len(active_investments') > Len(active_investments)
                => cash_balance >= investment_per_buy]_vars

\* C1 witness: two buys have drained a balance of two lots.
C1_Witness ==
    /\ pc = "sell"
    /\ OpenCount = 2
    /\ cash_balance = 0
    /\ initial_cash = 2 * investment_per_buy

\* C2 as stated: the trigger computed for a record is the campaign's
\* reference peak times 0.95^(N+1), N the positions open at that record.
C2_TriggerFromReferencePeak ==
    pc = "buy" => TriggerIs(Val(original_highest_peak), OpenCount + 1)

\* C3: a triggered, affordable record labelled buy is executed: one passed
\* buy, one position (low_price, investment_per_buy) on top of the stack,
\* cash debited by investment_per_buy, anchor moved to low_price; and
\* scenario A (cash 5000, investment 5000, peak 100, low 94) has trigger 95
\* and ends with one passed buy and no cash.
C3_BuyExecuted ==
    [][(pc = "buy" /\ LowAtOrBelowTrigger
          /\ cash_balance >= investment_per_buy /\ LabelledBuy)
       => /\ passed_buys' = passed_buys + 1
          /\ failed_buys' = failed_buys
          /\ Len(active_investments') = OpenCount + 1
          /\ SubSeq(active_investments', 1, OpenCount) = active_investments
          /\ active_investments'[OpenCount + 1].price = Cur.low
          /\ active_investments'[OpenCount + 1].amount = investment_per_buy
          /\ cash_balance' = cash_balance - investment_per_buy
          /\ last_purchase_price' = Some(Cur.low)
          /\ (n_read = 1 /\ initial_cash = 5000 /\ investment_per_buy = 5000
                /\ Cur.peak = 100 /\ Cur.low = 94)
             => /\ TriggerIs(95, 0)
                /\ passed_buys' = 1
                /\ cash_balance' = 0]_vars

\* C3 witness: scenario A with the label written 'Buy'.
C3_Witness ==
    /\ pc = "sell"
    /\ n_read = 1
    /\ initial_cash = 5000
    /\ Cur.peak = 100
    /\ Cur.low = 94
    /\ Cur.action = Some("Buy")
    /\ passed_buys = 1
    /\ cash_balance = 0

\* C4: a triggered, affordable record not labelled buy is one failed buy:
\* no passed buy, no position, no debit, anchor unchanged.
C4_FailedBuy ==
    [][(pc = "buy" /\ LowAtOrBelowTrigger
          /\ cash_balance >= investment_per_buy /\ ~LabelledBuy)
       => /\ failed_buys' = failed_buys + 1
          /\ passed_buys' = passed_buys
          /\ active_investments' = active_investments
          /\ cash_balance' = cash_balance
          /\ last_purchase_price' = last_purchase_price]_vars

\* C4 witness: a record labelled sell at exactly the trigger price, with
\* cash for it, has been tallied as the first failed buy.
C4_Witness ==
    /\ pc = "sell"
    /\ LabelledSell
    /\ Cur.low * Val(trigger_price).den = Val(trigger_price).num
    /\ cash_balance >= investment_per_buy
    /\ failed_buys = 1
    /\ passed_buys = 0

\* C5 as stated: a record labelled buy whose low_price is above the trigger
\* is tallied as a failed buy.
C5_BuyAboveTriggerFails ==
    [][(pc = "buy" /\ ~LowAtOrBelowTrigger /\ LabelledBuy)
       => failed_buys' = failed_buys + 1]_vars

\* C6: a triggered record met without the cash for it changes neither
\* tally, nor the cash, the stack or the anchor, whatever its label.
C6_InsufficientCashSkips ==
    [][(pc = "buy" /\ LowAtOrBelowTrigger /\ cash_balance < investment_per_buy)
       => UNCHANGED <<failed_buys, passed_buys, cash_balance,
                      active_investments, last_purchase_price>>]_vars

\* C6 witness: scenario D after a buy: no cash left, one position open, a
\* record labelled buy at or below the trigger has been skipped.
C6_Witness ==
    /\ pc = "sell"
    /\ LowAtOrBelowTrigger
    /\ LabelledBuy
    /\ cash_balance = 0
    /\ OpenCount = 1
    /\ passed_buys = 1
    /\ failed_buys = 0
    /\ last_purchase_price # Some(Cur.low)

\* C7: a record labelled sell met with k >= 1 positions open removes the
\* newest one, keeps the k-1 others in order and credits its amount.
C7_SellPopsNewest ==
    [][(pc = "sell" /\ LabelledSell /\ OpenCount >= 1)
       => /\ active_investments' = SubSeq(active_investments, 1, OpenCount - 1)
          /\ cash_balance' = cash_balance + active_investments[OpenCount].amount]_vars

\* C7 witness: of two positions bought at different prices the older one
\* is the one left after a sell.
C7_Witness ==
    /\ pc = "loop"
    /\ action = Some("sell")
    /\ passed_buys = 2
    /\ OpenCount = 1
    /\ active_investments[1].price # Val(last_purchase_price)
    /\ cash_balance = initial_cash - investment_per_buy

\* C8: a record labelled sell met with no position open leaves cash, stack,
\* campaign flag, anchor and tallies as the buy evaluation left them.
C8_SellOnEmptyIsNoOp ==
    [][(pc = "sell" /\ LabelledSell /\ OpenCount = 0)
       => UNCHANGED <<cash_balance, active_investments, stocks_sold,
                      last_purchase_price, original_highest_peak,
                      failed_buys, passed_buys>>]_vars

\* C8 witness: the first record is labelled sell, does not trigger, and its
\* sell evaluation has run on the empty stack.
C8_Witness ==
    /\ pc = "loop"
    /\ action = Some("sell")
    /\ n_read = 1
    /\ OpenCount = 0
    /\ failed_buys = 0
    /\ ~stocks_sold
    /\ cash_balance = initial_cash
    /\ initial_cash >= investment_per_buy

\* C9: a sell that empties the stack sets the campaign flag, the flag and
\* the anchor stay as they are until the next record is processed, and that
\* record's trigger is its own peak times 0.95; a sell that leaves a
\* position open does not set the flag, and the next processed record keeps
\* the anchor it finds.
C9_ReanchorAfterFullExit ==
    [][/\ (pc = "sell" /\ OpenCount >= 1 /\ Len(active_investments') = 0)
          => stocks_sold'
       /\ (pc = "sell" /\ Len(active_investments') >= 1) => ~stocks_sold'
       /\ pc = "loop" => UNCHANGED <<stocks_sold, last_purchase_price,
                                     original_highest_peak, active_investments>>
       /\ (pc = "anchor" /\ stocks_sold)
          => /\ OpenCount = 0
             /\ last_purchase_price' = Some(Cur.peak)
             /\ original_highest_peak' = Some(Cur.peak)
             /\ Val(trigger_price').num * 20 = Cur.peak * 19 * Val(trigger_price').den
       /\ (pc = "anchor" /\ ~stocks_sold)
          => UNCHANGED <<last_purchase_price, original_highest_peak>>]_vars

\* C9 witness: a campaign anchored at one peak was sold out, and the next
\* record, with another peak, has re-anchored and has its trigger.
C9_Witness ==
    /\ pc = "buy"
    /\ passed_buys = 1
    /\ OpenCount = 0
    /\ cash_balance = initial_cash
    /\ n_read = 3
    /\ Cur.peak = 120
    /\ Cur.low = 96
    /\ last_purchase_price = Some(120)
    /\ TriggerIs(114, 0)

\* C10: a run that reaches its final assertion fails it exactly when
\* failed_buys > 0, and failed_buys never decreases.
C10_FailureIffFailedBuys ==
    [][/\ failed_buys' >= failed_buys
       /\ (pc' = "done" /\ outcome' # "crashed")
          => /\ outcome' \in {"passed", "assert_failed"}
             /\ outcome' = "assert_failed" <=> failed_buys' > 0]_vars

\* C10 witness: a failed buy on the first record, then a passed buy, and
\* the run has ended in the assertion failure.
C10_Witness ==
    /\ pc = "done"
    /\ outcome = "assert_failed"
    /\ failed_buys = 1
    /\ passed_buys >= 1
    /\ OpenCount = 1

\* Notation for the rows of read_transaction_log.

\* the text of a numeric column is not empty and not a number
NonNumeric(cell) ==
    /\ cell \notin {Absent, None, Some("")}
    /\ Val(cell) \notin {"94", "100", "-5"}

\* the value of a numeric column is missing or empty
NoValue(cell) == cell \in {Absent, None, Some("")}

\* the date is a text that is not day/month/year
DateUnparsable(cell) ==
    /\ cell \notin {Absent, None}
    /\ Val(cell) \notin {"01/01/2020", "02/01/2020"}

\* the step takes a row that has as many cells as the header
TakesRow == r_pc = "rows" /\ n_rows' = n_rows + 1 /\ ~Val(row').overlong

\* the row taken is left out and the loop goes on
RowSkipped == r_pc' = "rows" /\ transactions' = transactions

\* C11 as stated: a row with non-numeric text in 'low price' or 'highest
\* peak' is skipped, the function goes on with the next row and what it
\* has collected so far is kept.
C11_NonNumericRowSkipped ==
    [][(TakesRow /\ (NonNumeric(Val(row').low) \/ NonNumeric(Val(row').peak)))
       => RowSkipped]_vars

\* C12 as stated: the returned records have strictly increasing dates and
\* positive low price and highest peak.
C12_ReturnedSortedAndPositive ==
    r_pc = "returned"
       => /\ \A i \in 1..Len(transactions) - 1 :
                transactions[i].date < transactions[i + 1].date
          /\ \A i \in 1..Len(transactions) :
                transactions[i].low > 0 /\ transactions[i].peak > 0

\* C13 as stated: a row without a low price, without a highest peak or
\* with a date that is not day/month/year is skipped, and the function
\* goes on with what it has collected.
C13_IncompleteRowSkipped ==
    [][(TakesRow /\ (\/ NoValue(Val(row').low)
                     \/ NoValue(Val(row').peak)
                     \/ DateUnparsable(Val(row').date)))
       => RowSkipped]_vars

\* Notation for the trigger as a fraction.

\* the trigger about to be stored is below the price p
NewTriggerBelow(p) == Val(trigger_price').num < p * Val(trigger_price').den

\* the trigger about to be stored is below the trigger that is stored
NewTriggerBelowOld ==
    LET g == GCD(Val(trigger_price).den, Val(trigger_price').den)
    IN  Val(trigger_price').num * (Val(trigger_price).den \div g)
            < Val(trigger_price).num * (Val(trigger_price').den \div g)

\* C14: each executed buy strictly lowers the trigger.  A buy executed with
\* N positions open at trigger T_N books a price at or below T_N; the
\* trigger computed for the record after it is strictly below T_N; and as
\* long as that position is the newest one and the anchor is its price
\* (no buy and no sell since), every trigger computed is strictly below its
\* price, hence below T_N.
C14_BuyLowersTrigger ==
    [][/\ (pc = "buy" /\ Len(active_investments') = OpenCount + 1)
          => /\ LowAtOrBelowTrigger
             /\ active_investments'[OpenCount + 1].price = Cur.low
             /\ Cur.low > 0
       /\ (pc = "anchor" /\ OpenCount >= 1
             /\ Val(trigger_price).den = Pow(20, OpenCount))
          => NewTriggerBelowOld
       /\ (pc = "anchor" /\ OpenCount >= 1
             /\ last_purchase_price = Some(active_investments[OpenCount].price))
          => /\ NewTriggerBelow(active_investments[OpenCount].price)
             /\ Val(trigger_price').den = Pow(20, OpenCount + 1)]_vars

\* C14 witness: two buys in one campaign (96 under 114, 80 under 86.64), and
\* the third record has its trigger, 80 * 0.95^3, with both positions open.
C14_Witness ==
    /\ pc = "buy"
    /\ n_read = 3
    /\ OpenCount = 2
    /\ active_investments[1].price = 96
    /\ active_investments[2].price = 80
    /\ original_highest_peak = Some(120)
    /\ TriggerIs(80, 3)

\* C15: the buy evaluation of a record runs before its sell evaluation and
\* on the state before the sell.  For a record labelled sell the trigger is
\* the anchor times 0.95^(N+1), N the positions open before the pop; if it
\* triggers without the cash for a buy, nothing is tallied, although its
\* sell then credits the cash; if it triggers with the cash, one failed
\* buy is tallied with the stack untouched, and its sell then pops one
\* position and tallies nothing.
C15_BuyEvaluationBeforeSell ==
    [][/\ pc = "anchor" => pc' = "buy" /\ UNCHANGED <<active_investments, cash_balance>>
       /\ pc = "buy" => pc' = "sell"
       /\ (pc = "buy" /\ LabelledSell)
          => /\ TriggerIs(Val(last_purchase_price), OpenCount + 1)
             /\ UNCHANGED <<active_investments, cash_balance>>
       /\ (pc = "buy" /\ LabelledSell /\ LowAtOrBelowTrigger
             /\ cash_balance < investment_per_buy)
          => UNCHANGED <<failed_buys, passed_buys>>
       /\ (pc = "buy" /\ LabelledSell /\ LowAtOrBelowTrigger
             /\ cash_balance >= investment_per_buy)
          => failed_buys' = failed_buys + 1
       /\ (pc = "sell" /\ LabelledSell /\ OpenCount >= 1)
          => /\ Len(active_investments') = OpenCount - 1
             /\ cash_balance' = cash_balance + investment_per_buy
             /\ UNCHANGED <<failed_buys, passed_buys>>]_vars

\* C15 witness: with cash for two lots, the first record was bought and the
\* second, labelled sell and below the trigger, has both been tallied as a
\* failed buy and popped the position.
C15_Witness ==
    /\ pc = "loop"
    /\ n_read = 2
    /\ action = Some("sell")
    /\ initial_cash = 2 * investment_per_buy
    /\ passed_buys = 1
    /\ failed_buys = 1
    /\ OpenCount = 0
    /\ cash_balance = initial_cash

\* C16 as stated: whenever a record is processed with no position open, its
\* trigger is its own highest peak times 0.95.
C16_OwnPeakWhenNoPosition ==
    pc = "buy" /\ OpenCount = 0 => TriggerIs(Cur.peak, 1)

\* C16 amended: a record processed with no position open is anchored to its
\* own peak only when the campaign flag is set, that is at the start of the
\* run and after a sell that emptied the stack; then its trigger is its own
\* highest peak times 0.95.  After earlier records on which no buy was
\* executed the flag is down: the campaign opened by the first of them is
\* still active, the anchor is kept, and the trigger is that record's peak
\* times 0.95.
C16_OwnPeakWhenFlagSet ==
    [][(pc = "anchor" /\ OpenCount = 0)
       => /\ stocks_sold
             => /\ original_highest_peak' = Some(Cur.peak)
                /\ Val(trigger_price').num * 20 = Cur.peak * 19 * Val(trigger_price').den
          /\ ~stocks_sold
             => /\ last_purchase_price = original_highest_peak
                /\ UNCHANGED <<original_highest_peak, last_purchase_price>>
                /\ Val(trigger_price').num * 20
                      = Val(original_highest_peak) * 19 * Val(trigger_price').den
          /\ ~stocks_sold']_vars

\* C16 witness: the first record (peak 100) was not bought; the second one
\* (peak 120) is processed with no position open and has the trigger 95.
C16_Witness ==
    /\ pc = "buy"
    /\ n_read = 2
    /\ OpenCount = 0
    /\ passed_buys = 0
    /\ Cur.peak = 120
    /\ original_highest_peak = Some(100)
    /\ TriggerIs(100, 1)

\* Notation for the window.

\* the step takes the next record of the list
TakesRecord == pc = "loop" /\ n_read' = n_read + 1

\* days from the first record to the record taken last
DaysFromStart(d) == Val(d) - Val(start_date)

\* C17 as stated: the window starts at the first record's date; a record
\* more than 730 days after it changes nothing; a record exactly 730 days
\* after it is evaluated; and once a record past the horizon has been met,
\* no later record changes the state: in particular, met with the campaign
\* flag set, the record that follows it is not processed, since processing
\* it would re-anchor and lower the flag.
C17_WindowFromFirstRecord ==
    [][/\ (TakesRecord /\ n_read = 0) => date_obj' = start_date
       /\ (TakesRecord /\ DaysFromStart(date_obj') > 730)
          => pc' = "loop" /\ UNCHANGED sim
       /\ (TakesRecord /\ DaysFromStart(date_obj') = 730) => pc' # "loop"
       /\ (TakesRecord /\ date_obj # None /\ DaysFromStart(date_obj) > 730
             /\ stocks_sold)
          => pc' # "anchor"]_vars

\* C18: cash_balance + investment_per_buy * (open positions) = initial_cash
\* in every state, so the open positions never cost more than initial_cash;
\* with 5000 / 5000 at most one position is open.
C18_CapitalConserved ==
    /\ cash_balance + investment_per_buy * OpenCount = initial_cash
    /\ investment_per_buy * OpenCount <= initial_cash
    /\ \A i \in 1..OpenCount : active_investments[i].amount = investment_per_buy
    /\ (initial_cash = 5000 /\ investment_per_buy = 5000) => OpenCount <= 1

\* C18 witness: with 5000 / 5000, a buy, a sell and a second buy: one
\* position open and no cash.
C18_Witness ==
    /\ pc = "loop"
    /\ initial_cash = 5000
    /\ investment_per_buy = 5000
    /\ passed_buys = 2
    /\ OpenCount = 1
    /\ cash_balance = 0

\* Notation for main.

\* the step sends an upload request
PutIssued == uploads' # uploads

\* the step ends the iteration of the current symbol and goes on with the
\* next one
GoesOnWithNextSymbol == sym' = sym + 1 /\ m_pc' = "begin"

\* the calls completed on the current file begin with the write, the
\* cleaning and the accepting validation, in this order
WrittenCleanedAccepted ==
    /\ Len(calls[File]) >= 4
    /\ SubSeq(calls[File], 1, 4)
          = <<"yf.download", "to_csv", "clean_csv", "validate_csv=True">>

\* the request just sent is one request, for the current file, with a
\* content that has the expected header and data rows
SendsCurrentFile ==
    /\ Len(uploads') = Len(uploads) + 1
    /\ SubSeq(uploads', 1, Len(uploads)) = uploads
    /\ uploads'[Len(uploads')].path = File
    /\ uploads'[Len(uploads')].content \in {<<"base64", "good">>, <<"base64", "stray">>}
    /\ \A k \in 1..Len(uploads) : uploads[k].path # File

\* what C19 says of every step but the removal of a rejected file
UploadOnlyAfterPipeline ==
    /\ PutIssued => (m_pc = "put" /\ WrittenCleanedAccepted /\ SendsCurrentFile)
    /\ (m_pc = "check" /\ data # Some("full") /\ m_pc' # "except")
       => (~PutIssued /\ GoesOnWithNextSymbol /\ csv' = csv)
    /\ (m_pc = "validate" /\ m_pc' # "sha") => (~PutIssued /\ m_pc' = "remove")
    /\ m_pc = "remove" => (~PutIssued /\ GoesOnWithNextSymbol)
    /\ m_pc = "except" => (~PutIssued /\ GoesOnWithNextSymbol)
    /\ sym' # sym => GoesOnWithNextSymbol
    /\ m_pc' = "done" => sym > Len(Symbols)

\* C19 as stated: an upload is sent only after the symbol's CSV was
\* written, cleaned and accepted in the same iteration; with empty data, a
\* missing column or a failed validation no upload is sent and the next
\* symbol is taken; and after a failed validation the local CSV is gone.
C19_UploadOnlyAfterPipeline ==
    [][/\ UploadOnlyAfterPipeline
       /\ m_pc = "remove" => csv'[File] = "absent"]_vars

\* C19 amended: as C19, but after a failed validation the removal of the
\* local CSV is attempted: the file is gone unless os.remove raises, and
\* then it is left as it was.
C19_UploadOnlyAfterPipelineRemovalAttempted ==
    [][/\ UploadOnlyAfterPipeline
       /\ m_pc = "remove"
          => /\ calls'[File][Len(calls'[File])] \in {"os.remove", "os.remove raises"}
             /\ \/ csv'[File] = "absent"
                \/ /\ csv' = csv
                   /\ calls'[File][Len(calls'[File])] = "os.remove raises"]_vars

\* C19 witness: QLD went through write, cleaning, validation and upload;
\* ^NDX was written and cleaned, failed validation, its removal raised, the
\* file is still there, nothing was uploaded for it, and main has ended.
C19_Witness ==
    /\ m_pc = "done"
    /\ Len(uploads) = 1
    /\ uploads[1].path = "qld_stock_data.csv"
    /\ calls["qld_stock_data.csv"]
          = <<"yf.download", "to_csv", "clean_csv", "validate_csv=True",
              "get_file_sha", "open", "requests.put">>
    /\ calls["ndx_stock_data.csv"]
          = <<"yf.download", "to_csv", "clean_csv", "validate_csv=False",
              "os.remove raises">>
    /\ csv["ndx_stock_data.csv"] = "badheader"

\* C20 as stated: get_file_sha returns the file's SHA when the file exists
\* and None only when it does not; an upload for a file that exists carries
\* its SHA and an 'Update' message, and an upload without SHA, 'Create', is
\* sent only for a file that does not exist.
C20_ShaWheneverFileExists ==
    [][/\ (m_pc = "sha" /\ m_pc' = "read")
          => /\ remote[File] => sha' = Some(<<"sha", File>>)
             /\ sha' = None => ~remote[File]
       /\ (PutIssued /\ remote[File])
          => /\ uploads'[Len(uploads')].sha = Some(<<"sha", File>>)
             /\ uploads'[Len(uploads')].message[1] = "Update"
       /\ (PutIssued /\ uploads'[Len(uploads')].sha = None)
          => /\ ~remote[File]
             /\ uploads'[Len(uploads')].message[1] = "Create"]_vars

====
